---- MODULE Spec2Model ----
(***************************************************************************)
(* Call-session engine of voip_webrtc_freepbx: VoipSipClient               *)
(* (static/src/js/voip_sip_client.js) driven by the VoipSystray component  *)
(* and by the SIP user agent.  JavaScript runs one task at a time, so an   *)
(* action is one task: a user command, a signaling event, a timer, a       *)
(* recorder event or the completion of an upload, together with every call *)
(* the handler makes before it yields.  Handlers are operators on a record *)
(* of the engine state so that a handler which calls another handler (or   *)
(* is registered twice as a listener) is the composition of the operators. *)
(***************************************************************************)
EXTENDS Integers, Sequences, FiniteSets, TLC

\* ---- bounds of the model ----
MaxSessions == 2
MaxChunks == 2
MaxTransfers == 2
MaxUploads == 2
MaxRequests == 2
MaxCount == 3
MaxTime == 5           \* the clock stops here
TicksPerSecond == 2    \* a tick is half a second

Sessions == 1..MaxSessions
NoSession == 0

\* notification.add() was not called
NoNotification == [success |-> 0, info |-> 0, danger |-> 0]

\* nothing was sent to /voip/call/update_duration
NoReport == [sess |-> NoSession, call_id |-> 0, duration |-> 0, elapsed |-> 0]

\* the id of the call-log record the server creates for session s
CallId(s) == 10 + s

\* the Call-ID read from the request of session s, and the one of its
\* confirmed dialog when the two differ
Provisional(s) == 20 + s
Confirmed(s) == 30 + s

Null == "null"
Undefined == "undefined"

\* SIP.SessionState of the signaling library; "None" is a session object not yet created
SessionStates == {"None", "Initial", "Establishing", "Established", "Terminating", "Terminated"}

VARIABLES
    currentSession,   \* VoipSipClient.currentSession (NoSession = null)
    state,            \* session.state
    kind,             \* "Inviter" (outbound) | "Invitation" (inbound) | "None"
    consult,          \* for the Inviter created by attendedTransfer: the index of
                      \* its transfer record (0 for an ordinary call)
    listeners,        \* number of stateChange listeners added by setupSessionHandlers
    isOnHold,         \* session.isOnHold: "undefined" | "true" | "false"
    hasData,          \* session.data is defined
    transfer,         \* session.data.transfer: sequence of transfer records
    sent,             \* signaling requests sent on the session
    pendingReinvite,  \* a re-INVITE of the session awaits its final response
    recvEnabled,      \* receiver track .enabled
    sendEnabled,      \* sender track .enabled
    requests,         \* re-INVITE / REFER requests awaiting their response
    inviting,         \* session whose makeCall awaits inviter.invite()
    mediaRecorder,    \* "null" | "recording" | "inactive"
    recordedChunks,   \* number of chunks in this.recordedChunks
    recordingSaved,
    recordingSaving,
    recOwner,         \* the call whose audio the recorder captures
    stopQueued,       \* recorder stop events queued by MediaRecorder.stop()
    uploads,          \* save_recording requests in flight
    okUploads,        \* per call: uploads answered OK
    recTimer,         \* per session: pending delayed startRecording timers
    enable_recording, \* config.user.enable_recording
    inCall,           \* systray state.inCall
    incomingCall,     \* systray state.incomingCall
    termHook,         \* per session: invocations of voipService.onCallTerminated
    hangupReq,        \* per session: call-log hangup updates requested
    stopRecByTerm,    \* per session: stopRecording calls made by onCallTerminated
    errors,           \* exceptions that escaped a callback in the last task
    remoteHold,       \* per session: the last accepted re-INVITE was a hold
    liveAudio,        \* audio tracks live when a call is established: "both" | "local" | "remote"
    recordingStream,  \* this.recordingStream: "null" | "mixed" | "local" | "remote"
    stoppedByRec,     \* source tracks stopped by the recording cleanup
    localStream,      \* this.localStream: the session whose microphone track it holds, or NoSession
    termTimer,        \* per session: pending 1 s media cleanup timers set by onCallTerminated
    senderTrack,      \* per session: the track its audio sender carries: "own" microphone, "foreign" (another call's microphone), "music" or "mix"
    holdMusicStream,  \* this.holdMusicStream is set
    holdMusicAudioContext,\* this.holdMusicAudioContext is set
    holdMusicPlaying, \* systray state.holdMusicPlaying
    now,              \* Date.now(), in ticks
    callStartTime,    \* 0 for null
    odooCallId,       \* the call-log record of the call, 0 for null
    establishedAt,    \* per session: when it became Established, 0 if never
    reported,         \* the duration this task sent to /voip/call/update_duration
    notified,         \* notifications shown by the last task, by type
    announced,        \* the transfers the UI announced as done
    tone,             \* the tone that plays: "none", "ringback", "busy" or "ring"
    rejectionError,   \* per session: rejectionError of its makeCall, Null while callRejected is false
    returned,         \* per session: what makeCall gave its caller, "none" before it returns
    hangupReason,     \* the hangup_reason this task sent to /voip/call/update, or "none"
    callState,        \* "idle" or "ringing"
    retryCount,       \* retries scheduled in a row
    retryTimer,       \* retry timers that have not fired yet
    steps,            \* the calls of the running task that the order of matters, in the order they were made
    sipCallId,        \* this.sipCallId, 0 for null
    confirmedDiffers, \* the Call-ID of the confirmed dialog differs from the one read from the request
    creates,          \* the /voip/call/create requests in flight
    createCount,      \* per session: the number of create requests issued for it
    logged,           \* per session: the SIP Call ID its call-log record carries, 0 without a record
    answeredAs,       \* the call id the running task handed to voip.answerCall, 0 for none
    isMuted,          \* state.isMuted of the systray
    registrationTimer,\* the timers of scheduleRetry('registration') that have not fired
    scheduledDelay,   \* the delay in ms of the retry the running task scheduled, 0 for none
    failures,         \* the transient failures handled in a row: since the last retry that succeeded or the last operation given up
    isRecording,      \* state.isRecording of the systray
    last              \* the last task: its operation and session, and what held
                      \* when it began (see Ev)

vars == <<currentSession, state, kind, consult, listeners, isOnHold, hasData, transfer,
          sent, pendingReinvite, recvEnabled, sendEnabled, requests, inviting,
          mediaRecorder, recordedChunks, recordingSaved, recordingSaving, recOwner,
          stopQueued, uploads, okUploads, recTimer, enable_recording, inCall,
          incomingCall, termHook, hangupReq, stopRecByTerm, errors, remoteHold,
          liveAudio, recordingStream, stoppedByRec, localStream, termTimer,
          senderTrack, holdMusicStream, holdMusicAudioContext, holdMusicPlaying,
          now, callStartTime, odooCallId, establishedAt, reported, notified,
          announced, tone, rejectionError, returned, hangupReason, callState,
          retryCount, retryTimer, steps, sipCallId, confirmedDiffers, creates,
          createCount, logged, answeredAs, isMuted, registrationTimer,
          scheduledDelay, failures, isRecording, last>>

\* the engine state as one record, at the start of a task
Cur ==
    [currentSession |-> currentSession, state |-> state, kind |-> kind,
     consult |-> consult, listeners |-> listeners, isOnHold |-> isOnHold,
     hasData |-> hasData, transfer |-> transfer, sent |-> sent,
     pendingReinvite |-> pendingReinvite, recvEnabled |-> recvEnabled,
     sendEnabled |-> sendEnabled, requests |-> requests, inviting |-> inviting,
     mediaRecorder |-> mediaRecorder, recordedChunks |-> recordedChunks,
     recordingSaved |-> recordingSaved, recordingSaving |-> recordingSaving,
     recOwner |-> recOwner, stopQueued |-> stopQueued, uploads |-> uploads,
     okUploads |-> okUploads, recTimer |-> recTimer,
     enable_recording |-> enable_recording, inCall |-> inCall,
     incomingCall |-> incomingCall, termHook |-> termHook, hangupReq |-> hangupReq,
     stopRecByTerm |-> stopRecByTerm, errors |-> {}, remoteHold |-> remoteHold,
     liveAudio |-> liveAudio,
     recordingStream |-> recordingStream,
     stoppedByRec |-> stoppedByRec,
     localStream |-> localStream,
     termTimer |-> termTimer,
     senderTrack |-> senderTrack,
     holdMusicStream |-> holdMusicStream,
     holdMusicAudioContext |-> holdMusicAudioContext,
     holdMusicPlaying |-> holdMusicPlaying,
     now |-> now,
     callStartTime |-> callStartTime,
     odooCallId |-> odooCallId,
     establishedAt |-> establishedAt,
     reported |-> NoReport,
     notified |-> NoNotification,
     announced |-> announced,
     tone |-> tone,
     rejectionError |-> rejectionError,
     returned |-> returned,
     hangupReason |-> "none",
     callState |-> callState,
     retryCount |-> retryCount,
     retryTimer |-> retryTimer,
     steps |-> <<>>,
     sipCallId |-> sipCallId,
     confirmedDiffers |-> confirmedDiffers,
     creates |-> creates,
     createCount |-> createCount,
     logged |-> logged,
     answeredAs |-> 0,
     isMuted |-> isMuted,
     registrationTimer |-> registrationTimer,
     scheduledDelay |-> 0,
     failures |-> failures,
     isRecording |-> isRecording,
     last |-> last]

Commit(st) ==
    /\ currentSession' = st.currentSession
    /\ state' = st.state
    /\ kind' = st.kind
    /\ consult' = st.consult
    /\ listeners' = st.listeners
    /\ isOnHold' = st.isOnHold
    /\ hasData' = st.hasData
    /\ transfer' = st.transfer
    /\ sent' = st.sent
    /\ pendingReinvite' = st.pendingReinvite
    /\ recvEnabled' = st.recvEnabled
    /\ sendEnabled' = st.sendEnabled
    /\ requests' = st.requests
    /\ inviting' = st.inviting
    /\ mediaRecorder' = st.mediaRecorder
    /\ recordedChunks' = st.recordedChunks
    /\ recordingSaved' = st.recordingSaved
    /\ recordingSaving' = st.recordingSaving
    /\ recOwner' = st.recOwner
    /\ stopQueued' = st.stopQueued
    /\ uploads' = st.uploads
    /\ okUploads' = st.okUploads
    /\ recTimer' = st.recTimer
    /\ enable_recording' = st.enable_recording
    /\ inCall' = st.inCall
    /\ incomingCall' = st.incomingCall
    /\ termHook' = st.termHook
    /\ hangupReq' = st.hangupReq
    /\ stopRecByTerm' = st.stopRecByTerm
    /\ errors' = st.errors
    /\ remoteHold' = st.remoteHold
    /\ liveAudio' = st.liveAudio
    /\ recordingStream' = st.recordingStream
    /\ stoppedByRec' = st.stoppedByRec
    /\ localStream' = st.localStream
    /\ termTimer' = st.termTimer
    /\ senderTrack' = st.senderTrack
    /\ holdMusicStream' = st.holdMusicStream
    /\ holdMusicAudioContext' = st.holdMusicAudioContext
    /\ holdMusicPlaying' = st.holdMusicPlaying
    /\ now' = st.now
    /\ callStartTime' = st.callStartTime
    /\ odooCallId' = st.odooCallId
    /\ establishedAt' = st.establishedAt
    /\ reported' = st.reported
    /\ notified' = st.notified
    /\ announced' = st.announced
    /\ tone' = st.tone
    /\ rejectionError' = st.rejectionError
    /\ returned' = st.returned
    /\ hangupReason' = st.hangupReason
    /\ callState' = st.callState
    /\ retryCount' = st.retryCount
    /\ retryTimer' = st.retryTimer
    /\ steps' = st.steps
    /\ sipCallId' = st.sipCallId
    /\ confirmedDiffers' = st.confirmedDiffers
    /\ creates' = st.creates
    /\ createCount' = st.createCount
    /\ logged' = st.logged
    /\ answeredAs' = st.answeredAs
    /\ isMuted' = st.isMuted
    /\ registrationTimer' = st.registrationTimer
    /\ scheduledDelay' = st.scheduledDelay
    /\ failures' = st.failures
    /\ isRecording' = st.isRecording
    /\ last' = st.last

Inc(n) == IF n < MaxCount THEN n + 1 ELSE n

\* the running task makes the call named step
Step(st, step) == [st EXCEPT !.steps = Append(@, step)]

\* the record of a task: op and sess name the operation and the session it is
\* about; cs and state are the current session and the state of sess when the
\* task began; pre, n, target and flag are filled in by the tasks that need them
Ev(op, s) ==
    [op |-> op, sess |-> s, cs |-> currentSession,
     state |-> IF s = NoSession THEN "None" ELSE state[s],
     pre |-> Null, n |-> 0, target |-> NoSession, flag |-> FALSE]

Init ==
    /\ currentSession = NoSession
    /\ state = [s \in Sessions |-> "None"]
    /\ kind = [s \in Sessions |-> "None"]
    /\ consult = [s \in Sessions |-> 0]
    /\ listeners = [s \in Sessions |-> 0]
    /\ isOnHold = [s \in Sessions |-> Undefined]
    /\ hasData = [s \in Sessions |-> FALSE]
    /\ transfer = [s \in Sessions |-> <<>>]
    /\ sent = [s \in Sessions |-> {}]
    /\ pendingReinvite = [s \in Sessions |-> FALSE]
    /\ recvEnabled = [s \in Sessions |-> TRUE]
    /\ sendEnabled = [s \in Sessions |-> TRUE]
    /\ requests = {}
    /\ inviting = NoSession
    /\ mediaRecorder = Null
    /\ recordedChunks = 0
    /\ recordingSaved = FALSE
    /\ recordingSaving = FALSE
    /\ recOwner = NoSession
    /\ stopQueued = 0
    /\ uploads = <<>>
    /\ okUploads = [s \in Sessions |-> 0]
    /\ recTimer = [s \in Sessions |-> 0]
    /\ enable_recording \in BOOLEAN
    /\ inCall = FALSE
    /\ incomingCall = FALSE
    /\ termHook = [s \in Sessions |-> 0]
    /\ hangupReq = [s \in Sessions |-> 0]
    /\ stopRecByTerm = [s \in Sessions |-> 0]
    /\ errors = {}
    /\ remoteHold = [s \in Sessions |-> FALSE]
    /\ liveAudio \in {"both", "local", "remote"}
    /\ recordingStream = Null
    /\ stoppedByRec = {}
    /\ localStream = NoSession
    /\ termTimer = [s \in Sessions |-> 0]
    /\ senderTrack = [s \in Sessions |-> "own"]
    /\ holdMusicStream = FALSE
    /\ holdMusicAudioContext = FALSE
    /\ holdMusicPlaying = FALSE
    /\ now = 1
    /\ callStartTime = 0
    /\ odooCallId = 0
    /\ establishedAt = [s \in Sessions |-> 0]
    /\ reported = NoReport
    /\ notified = NoNotification
    /\ announced = {}
    /\ tone = "none"
    /\ rejectionError = [s \in Sessions |-> Null]
    /\ returned = [s \in Sessions |-> "none"]
    /\ hangupReason = "none"
    /\ callState = "idle"
    /\ retryCount = 0
    /\ retryTimer = 0
    /\ steps = <<>>
    /\ sipCallId = 0
    /\ confirmedDiffers \in BOOLEAN
    /\ creates = <<>>
    /\ createCount = [s \in Sessions |-> 0]
    /\ logged = [s \in Sessions |-> 0]
    /\ answeredAs = 0
    /\ isMuted = FALSE
    /\ registrationTimer = 0
    /\ scheduledDelay = 0
    /\ failures = 0
    /\ isRecording = FALSE
    /\ last = [op |-> "init", sess |-> NoSession, cs |-> NoSession, state |-> "None",
               pre |-> Null, n |-> 0, target |-> NoSession, flag |-> FALSE]

\* ---- Recording subsystem ----

\* saveRecording(): the part that runs before the fetch is awaited.  The early
\* returns sit inside try { } finally { this.recordingSaving = false }.
SaveRecording(st, viaOnstop) ==
    IF st.recordingSaved \/ st.recordingSaving
    THEN [st EXCEPT !.recordingSaving = FALSE]
    ELSE IF st.recordedChunks = 0
    THEN [st EXCEPT !.recordingSaving = FALSE]
    ELSE [st EXCEPT !.recordingSaving = TRUE,
                    !.uploads = Append(@, [call |-> st.recOwner,
                                           chunks |-> st.recordedChunks,
                                           onstop |-> viaOnstop,
                                           stale |-> FALSE])]

\* the .then() of the onstop handler: "now safe to reset call timing and state"
OnstopReset(st) ==
    [st EXCEPT !.callStartTime = 0,
               !.recordingSaved = FALSE, !.recordingSaving = FALSE]

\* the stream onCallEstablished hands to startRecording: the mixed destination
\* stream, or the stream made of the sender's or of the receiver's own tracks
SelectRecordingStream(st) ==
    IF st.liveAudio = "both" THEN "mixed" ELSE st.liveAudio

\* the .finally() of the onstop handler: every track of this.recordingStream
\* that has not ended is stopped.  The tracks of a session are live while it
\* is Established.
CleanupRecordingStream(st) ==
    LET src == IF st.recordingStream = "local" THEN "microphone" ELSE "remote"
    IN  IF st.recordingStream = Null
        THEN st
        ELSE [st EXCEPT
                !.stoppedByRec =
                    IF /\ st.recordingStream # "mixed"
                       /\ st.recOwner # NoSession
                       /\ st.state[st.recOwner] = "Established"
                    THEN @ \cup {[sess |-> st.recOwner, track |-> src]}
                    ELSE @,
                !.recordingStream = Null]

\* stopRecording()
StopRecording(st) ==
    LET st0 == Step(st, "stopRecording") IN
    IF st.mediaRecorder = "recording"
    THEN [st0 EXCEPT !.mediaRecorder = "inactive", !.stopQueued = @ + 1]
    ELSE IF st.recordedChunks > 0
    THEN SaveRecording(st0, FALSE)
    ELSE st0

\* a startRecording(stream) without the check for an active recorder
StartRecordingAlways(st, s) ==
    [st EXCEPT !.recordedChunks = 0,
               !.uploads = [i \in DOMAIN @ |-> [@[i] EXCEPT !.stale = TRUE]],
               !.recordingSaved = FALSE,
               !.recordingSaving = FALSE,
               !.mediaRecorder = "recording",
               !.recordingStream = SelectRecordingStream(st),
               !.recOwner = s]

\* mediaRecorder.ondataavailable with a chunk of the given size
OnDataAvailable(st, size) ==
    IF size > 0 THEN [st EXCEPT !.recordedChunks = @ + 1] ELSE st

\* startRecording(stream) for the recording stream of session s.  The chunk
\* array is replaced: a request still in flight was built from the old one.
StartRecording(st, s) ==
    IF st.mediaRecorder = "recording"
    THEN st
    ELSE [st EXCEPT !.recordedChunks = 0,
                    !.uploads = [i \in DOMAIN @ |-> [@[i] EXCEPT !.stale = TRUE]],
                    !.recordingSaved = FALSE,
                    !.recordingSaving = FALSE,
                    !.mediaRecorder = "recording",
                    !.recordingStream = SelectRecordingStream(st),
                    !.recOwner = s]

\* mediaRecorder.onstop
RecorderOnstop(st) ==
    IF st.recordedChunks > 0
    THEN LET st1 == SaveRecording(st, TRUE)
         IN  IF Len(st1.uploads) = Len(st.uploads)
             THEN CleanupRecordingStream(OnstopReset(st1))
             ELSE st1
    ELSE st

\* ---- Session event handlers ----

\* systray onCallTerminated(session), installed as voipService.onCallTerminated
SystrayOnCallTerminated(st, s) ==
    [st EXCEPT !.inCall = FALSE,
               !.incomingCall = FALSE,
               !.isMuted = FALSE,
               !.isRecording = FALSE,
               !.termHook[s] = Inc(@)]

\* playRingbackTone(), playBusyTone(), playRingTone()
PlayTone(st, t) == [st EXCEPT !.tone = t]

StopAllTonesSkipped(st) == st

\* stopAllTones()
StopAllTones(st) == Step([st EXCEPT !.tone = "none"], "stopAllTones")

\* updateCallState(newState)
UpdateCallState(st, newState) ==
    [st EXCEPT !.callState = newState,
               !.callStartTime = IF newState = "ringing" THEN st.now ELSE @]

\* getCallDuration()
GetCallDuration(st) ==
    IF st.callStartTime # 0
    THEN (st.now - st.callStartTime) \div TicksPerSecond
    ELSE 0

\* the whole seconds session s has been Established for
Elapsed(st, s) ==
    IF st.establishedAt[s] = 0 THEN 0
    ELSE (st.now - st.establishedAt[s]) \div TicksPerSecond

\* updateCallDuration(duration) of the client, which hands this.odooCallId and
\* its argument to updateCallDuration(callId, duration) of the service
UpdateCallDuration(st, s, duration) ==
    IF st.odooCallId = 0 \/ duration <= 0
    THEN st
    ELSE [st EXCEPT !.reported = [sess |-> s, call_id |-> st.odooCallId,
                                  duration |-> duration,
                                  elapsed |-> Elapsed(st, s)]]

\* onCallTerminated(session); it calls this.updateCallDuration(this.odooCallId,
\* duration), whose one parameter takes the first of the two arguments
OnCallTerminated(st, s) ==
    LET duration == GetCallDuration(st)
        args == <<st.odooCallId, duration>>
        st0 == IF st.odooCallId # 0
               THEN Step(UpdateCallDuration(st, s, args[1]), "updateCallDuration")
               ELSE st
        st1 == Step([st0 EXCEPT !.hangupReq[s] = Inc(@),
                                !.hangupReason = "normal",
                                !.stopRecByTerm[s] = Inc(@)], "hangupCall")
        st2 == StopRecording(StopAllTones(st1))
        st3 == [st2 EXCEPT !.termTimer[s] = @ + 1,
                           !.currentSession = NoSession]
    IN  SystrayOnCallTerminated(Step(st3, "onCallTerminated"), s)

\* the Call-ID of the dialog of session s
DialogId(st, s) == IF st.confirmedDiffers THEN Confirmed(s) ELSE Provisional(s)

\* voipService.updateCallSipId(callId, sipCallId): the record callId gets the id
UpdateCallSipId(st, callId, id) ==
    IF callId - 10 \in Sessions THEN [st EXCEPT !.logged[callId - 10] = id] ELSE st

\* onCallEstablished(session): the confirmed SIP Call ID is read from the dialog
ConfirmSipCallId(st, s) ==
    IF DialogId(st, s) # st.sipCallId
    THEN LET st1 == [st EXCEPT !.sipCallId = DialogId(st, s)]
         IN  IF st.odooCallId # 0
             THEN UpdateCallSipId(st1, st.odooCallId, DialogId(st, s))
             ELSE st1
    ELSE st

\* onCallEstablished(session): the stream of the sender's live audio tracks is
\* kept in this.localStream and the delayed startRecording is scheduled
OnCallEstablished(st, s) ==
    LET st00 == [StopAllTones(st) EXCEPT !.callStartTime = st.now,
                                         !.establishedAt[s] = st.now]
        st0 == ConfirmSipCallId(st00, s)
        st1 == IF st.liveAudio \in {"both", "local"}
               THEN [st0 EXCEPT !.localStream = s]
               ELSE st0
    IN  IF st1.enable_recording
        THEN [st1 EXCEPT !.recTimer[s] = @ + 1]
        ELSE st1

\* the 1 s timer of onCallTerminated: the tracks of this.localStream are
\* stopped unless a recorder is active
MediaCleanup(st) ==
    IF st.localStream # NoSession /\ st.mediaRecorder # "recording"
    THEN [st EXCEPT !.localStream = NoSession]
    ELSE st

\* the stateChange listener added by setupSessionHandlers
Listener(st, s, new) ==
    IF new = "Established" THEN OnCallEstablished(st, s)
    ELSE IF new = "Terminated" THEN OnCallTerminated(st, s)
    ELSE st

\* the emitter calls its n listeners in turn
RECURSIVE Notify(_, _, _, _)
Notify(st, s, new, n) ==
    IF n = 0 THEN st ELSE Notify(Listener(st, s, new), s, new, n - 1)

\* session.stateChange: the state is set and every listener added by
\* setupSessionHandlers runs
StateTransition(st, s, new) ==
    Notify([st EXCEPT !.state[s] = new], s, new, st.listeners[s])

\* ---- Signaling primitives of the SIP library (Session / Inviter / Invitation) ----

Send(st, s, msg) == [st EXCEPT !.sent[s] = @ \cup {msg}]

\* session.bye(): allowed only when Established; the state becomes Terminated at once
Bye(st, s) ==
    IF st.state[s] = "Established"
    THEN StateTransition(Send(st, s, "BYE"), s, "Terminated")
    ELSE st

HasPeerConnection(st, s) == st.state[s] \in {"Establishing", "Established"}

\* ---- Hold / resume (holdCall, resumeCall and their request delegates) ----

\* session.invite(options) as a re-INVITE: refused unless Established and no
\* re-INVITE is pending
CanReinvite(st, s) == st.state[s] = "Established" /\ ~st.pendingReinvite[s]

SendReinvite(st, s, op, before) ==
    LET st1 == Send(st, s, "REINVITE")
    IN  [st1 EXCEPT !.pendingReinvite[s] = TRUE,
                    !.requests = @ \cup {[op |-> op, sess |-> s, tid |-> 0,
                                          before |-> before, target |-> NoSession]}]

\* holdCall()
HoldCall(st) ==
    LET cs == st.currentSession IN
    IF cs = NoSession THEN st
    ELSE IF st.isOnHold[cs] = "true" THEN st
    ELSE LET st1 == [st EXCEPT !.isOnHold[cs] = "true"]
         IN  IF CanReinvite(st1, cs)
             THEN SendReinvite(st1, cs, "hold", st.isOnHold[cs])
             ELSE [st1 EXCEPT !.isOnHold[cs] = "false"]

\* resumeCall()
ResumeCall(st) ==
    LET cs == st.currentSession IN
    IF cs = NoSession THEN st
    ELSE IF st.isOnHold[cs] = "false" THEN st
    ELSE LET st1 == [st EXCEPT !.isOnHold[cs] = "false"]
         IN  IF CanReinvite(st1, cs)
             THEN SendReinvite(st1, cs, "resume", st.isOnHold[cs])
             ELSE [st1 EXCEPT !.isOnHold[cs] = "true"]

Throw(st, e) == [st EXCEPT !.errors = @ \cup {e}]

\* this.notification.add(message, { type })
Notification(st, type) == [st EXCEPT !.notified[type] = @ + 1]

\* requestDelegate.onAccept of holdCall (hold = TRUE) and of resumeCall (hold = FALSE)
ReinviteOnAccept(st, hold) ==
    LET cs == st.currentSession
        st1 == IF cs # NoSession /\ HasPeerConnection(st, cs)
               THEN [st EXCEPT !.recvEnabled[cs] = ~hold, !.sendEnabled[cs] = ~hold]
               ELSE st
    IN  IF cs = NoSession
        THEN Throw(st1, "TypeError")
        ELSE [st1 EXCEPT !.isOnHold[cs] = IF hold THEN "true" ELSE "false",
                         !.hasData[cs] = TRUE]

\* requestDelegate.onReject of holdCall (hold = TRUE) and of resumeCall (hold = FALSE)
ReinviteOnReject(st, hold) ==
    LET cs == st.currentSession IN
    IF cs = NoSession
    THEN Throw(st, "TypeError")
    ELSE Throw([st EXCEPT !.isOnHold[cs] = IF hold THEN "false" ELSE "true"], "Error")

\* ---- Transfer (transferCall, attendedTransfer, completeAttendedTransfer) ----

\* the record pushed on session.data.transfer: its type and accept.complete
TransferRecord(type) == [type |-> type, complete |-> Null]

\* this.currentSession.data.transfer[transferId] can be written
HasRecord(st, tid) ==
    /\ st.currentSession # NoSession
    /\ st.hasData[st.currentSession]
    /\ tid <= Len(st.transfer[st.currentSession])

SendRefer(st, s, op, tid, n) ==
    [Send(st, s, "REFER") EXCEPT
        !.requests = @ \cup {[op |-> op, sess |-> s, tid |-> tid, before |-> Null,
                              target |-> n]}]

\* the checks at the head of transferCall / attendedTransfer
CanTransfer(st) ==
    /\ st.currentSession # NoSession
    /\ st.state[st.currentSession] = "Established"

\* transferCall(extension) with a well-formed extension
TransferCall(st) ==
    IF ~CanTransfer(st) THEN st
    ELSE LET cs == st.currentSession
             st1 == [st EXCEPT !.hasData[cs] = TRUE,
                               !.transfer[cs] = Append(@, TransferRecord("Blind"))]
         IN  SendRefer(st1, cs, "refer", Len(st1.transfer[cs]), NoSession)

\* what the caller hands to transferCall as extension
Extensions == {"valid", "empty", "missing"}

\* transferCall(extension): a missing extension throws at extension.replace(),
\* before the record is pushed; an empty one gives "sip:@host", which
\* makeURI does not parse, so refer() throws after the record was pushed
TransferCallTo(st, ext) ==
    IF ~CanTransfer(st) THEN st
    ELSE LET cs == st.currentSession
             st0 == [st EXCEPT !.hasData[cs] = TRUE]
             st1 == [st0 EXCEPT !.transfer[cs] = Append(@, TransferRecord("Blind"))]
         IN  IF ext = "missing" THEN st0
             ELSE IF ext = "empty" THEN st1
             ELSE SendRefer(st1, cs, "refer", Len(st1.transfer[cs]), NoSession)

\* attendedTransfer(extension): n is the new Inviter
AttendedTransfer(st, n) ==
    IF ~CanTransfer(st) THEN st
    ELSE LET cs == st.currentSession
             st1 == [st EXCEPT !.hasData[cs] = TRUE,
                               !.transfer[cs] = Append(@, TransferRecord("Attended"))]
             st2 == [st1 EXCEPT !.kind[n] = "Inviter",
                                !.state[n] = "Establishing",
                                !.hasData[n] = TRUE,
                                !.consult[n] = Len(st1.transfer[cs])]
         IN  Send(st2, n, "INVITE")

\* completeAttendedTransfer(newSession)
CompleteAttendedTransfer(st, n) ==
    LET cs == st.currentSession IN
    IF cs = NoSession THEN st
    ELSE IF ~st.hasData[cs] \/ Len(st.transfer[cs]) = 0 THEN st
    ELSE IF st.state[cs] # "Established" THEN st
    ELSE SendRefer(st, cs, "complete", Len(st.transfer[cs]), n)

\* requestDelegate.onAccept of transferCall and of completeAttendedTransfer
ReferOnAccept(st, tid) ==
    IF ~HasRecord(st, tid) THEN Throw(st, "TypeError")
    ELSE LET cs == st.currentSession
             st1 == [st EXCEPT !.transfer[cs][tid].complete = "true"]
         IN  Bye(st1, cs)

\* requestDelegate.onReject of transferCall and of completeAttendedTransfer
ReferOnReject(st, tid) ==
    IF ~HasRecord(st, tid) THEN Throw(st, "TypeError")
    ELSE [st EXCEPT !.transfer[st.currentSession][tid].complete = "false"]

\* delegates of the consultation Inviter: they write the disposition of the
\* transfer record through this.currentSession (the disposition text itself
\* is not part of the model)
ConsultDisposition(st, tid, d) ==
    IF ~HasRecord(st, tid) THEN Throw(st, "TypeError") ELSE st

\* ---- Call setup and teardown ----

\* the status codes of a final rejection
Statuses == {404, 408, 480, 486, 500, 503}

\* rejectionError of makeCall's onReject: the class of the message it picks
\* ('Busy Here', 'Service Unavailable' / 'Temporarily Unavailable', 'Not Found',
\* 'Request Timeout', else the reason phrase of the response)
RejectionError(statusCode) ==
    IF statusCode = 503 THEN "unavailable"
    ELSE IF statusCode = 486 THEN "busy"
    ELSE IF statusCode = 404 THEN "notFound"
    ELSE IF statusCode = 408 THEN "timeout"
    ELSE IF statusCode = 480 THEN "unavailable"
    ELSE "serverError"

\* requestDelegate.onReject of makeCall's invite()
MakeCallOnReject(st, s, statusCode) ==
    LET st1 == StopAllTones(st)
        st2 == IF statusCode \in {486, 503, 600} THEN PlayTone(st1, "busy") ELSE st1
    IN  [st2 EXCEPT !.rejectionError[s] = RejectionError(statusCode)]

\* the end of makeCall: "if (callRejected) throw new Error(rejectionError)",
\* else true
MakeCallReturn(st, s) ==
    [st EXCEPT !.returned[s] = IF st.rejectionError[s] # Null
                               THEN st.rejectionError[s]
                               ELSE "true"]

\* handleIncomingCall(invitation) up to the notification of the systray
HandleIncomingCall(st, s) ==
    [PlayTone(st, "ring") EXCEPT !.kind[s] = "Invitation",
                                 !.state[s] = "Initial",
                                 !.currentSession = s,
                                 !.sipCallId = Provisional(s),
                                 !.listeners[s] = @ + 1]

\* voipService.makeCall(number, sipCallId, ...) for session s: the create request
\* is sent; answer tells that answerCall of the systray awaits it
IssueCreate(st, s, answer) ==
    [st EXCEPT !.creates = Append(@, [sess |-> s, sip |-> st.sipCallId,
                                      answer |-> answer]),
               !.createCount = IF s \in Sessions THEN [@ EXCEPT ![s] = Inc(@)] ELSE @]

\* systray onIncomingCall(callData); holdCurrentCall() calls holdCall() when the
\* engine has a current session
SystrayOnIncomingCall(st) ==
    LET st1 == IF st.inCall THEN HoldCall(st) ELSE st
    IN  IssueCreate([st1 EXCEPT !.incomingCall = TRUE], st.currentSession, FALSE)

\* answerCall() of the engine: accept() exists on an Invitation and is valid in Initial
CanAccept(st) ==
    /\ st.currentSession # NoSession
    /\ st.kind[st.currentSession] = "Invitation"
    /\ st.state[st.currentSession] = "Initial"

\* systray answerCall(session) from "await voipClient.answerCall()" on;
\* callId is its local variable odooCallId
AnswerCall(st, callId) ==
    IF CanAccept(st)
    THEN LET cs == st.currentSession
         IN  [Send(st, cs, "ACCEPT") EXCEPT !.state[cs] = "Establishing",
                                            !.inCall = TRUE,
                                            !.incomingCall = FALSE,
                                            !.answeredAs = callId]
    ELSE Notification([st EXCEPT !.inCall = FALSE, !.incomingCall = TRUE], "danger")

\* systray answerCall(session): without an Odoo call id the record is created
\* first and the call is answered when the request has returned
SystrayAnswerCall(st) ==
    IF st.odooCallId = 0
    THEN IssueCreate([st EXCEPT !.inCall = TRUE, !.incomingCall = FALSE],
                     st.currentSession, TRUE)
    ELSE AnswerCall(st, st.odooCallId)

\* the create request i returns, with a call id when ok: the record of the call
\* exists from the first request that succeeds
CreateReturned(st, i, ok) ==
    LET req == st.creates[i]
        st1 == [st EXCEPT !.creates = SubSeq(@, 1, i - 1) \o SubSeq(@, i + 1, Len(@))]
        st2 == IF ok /\ req.sess \in Sessions
               THEN [st1 EXCEPT !.odooCallId = CallId(req.sess),
                                !.logged[req.sess] = IF @ = 0 THEN req.sip ELSE @]
               ELSE st1
    IN  IF req.answer
        THEN AnswerCall(st2, IF ok /\ req.sess \in Sessions THEN CallId(req.sess) ELSE 0)
        ELSE st2

\* reject() of the engine
Reject(st) ==
    LET cs == st.currentSession IN
    IF cs = NoSession THEN st
    ELSE LET st0 == StopAllTones(st)
             st1 == IF st.kind[cs] = "Invitation"
                       /\ st.state[cs] \in {"Initial", "Establishing"}
                    THEN StateTransition(Send(st0, cs, "REJECT"), cs, "Terminated")
                    ELSE st0
         IN  [st1 EXCEPT !.currentSession = NoSession]

\* the branch of hangup() taken for the state of the current session
HangupBranch(st, cs) ==
    IF st.state[cs] \in {"Initial", "Establishing"} THEN "cancel"
    ELSE IF st.state[cs] = "Established" THEN "bye"
    ELSE "reject"

\* hangup() of the engine.  cancel() exists only on an Inviter and reject() only
\* on an Invitation; a call of a missing method lands in the catch block
Hangup(st) ==
    LET cs == st.currentSession IN
    IF cs = NoSession THEN st
    ELSE LET st1 == [StopRecording(st) EXCEPT !.localStream = NoSession]
             br == HangupBranch(st1, cs)
             st2 == IF br = "cancel"
                    THEN IF st1.kind[cs] = "Inviter"
                         THEN [Send(st1, cs, "CANCEL") EXCEPT !.state[cs] = "Terminating"]
                         ELSE st1
                    ELSE IF br = "bye"
                    THEN Bye(st1, cs)
                    ELSE st1
         IN  [st2 EXCEPT !.currentSession = NoSession]

\* ---- Hold music ----

\* RTCRtpSender.replaceTrack on the audio sender of session s
ReplaceTrack(st, s, track) ==
    Step([st EXCEPT !.senderTrack[s] = track], "replaceTrack")

\* removeHoldMusicFromCall(): the track of this.localStream is put back
RemoveHoldMusicFromCall(st) ==
    LET cs == st.currentSession IN
    IF cs = NoSession \/ ~HasPeerConnection(st, cs) THEN st
    ELSE IF st.localStream = NoSession THEN st
    ELSE ReplaceTrack(st, cs, IF st.localStream = cs THEN "own" ELSE "foreign")

\* stopHoldMusic(): the oscillators and the tracks of this.holdMusicStream are
\* stopped and the audio context is closed, then removeHoldMusicFromCall() runs
StopHoldMusic(st) ==
    LET st1 == IF st.holdMusicStream \/ st.holdMusicAudioContext
               THEN Step(st, "stopHoldMusicSource")
               ELSE st
    IN  RemoveHoldMusicFromCall([st1 EXCEPT !.holdMusicStream = FALSE,
                                            !.holdMusicAudioContext = FALSE])

\* injectHoldMusicStream(): the sender gets the track of this.holdMusicStream
InjectHoldMusicStream(st) ==
    LET cs == st.currentSession IN
    IF cs = NoSession \/ ~st.holdMusicStream \/ ~HasPeerConnection(st, cs) THEN st
    ELSE ReplaceTrack(st, cs, "music")

\* injectHoldMusicIntoCall(): the sender gets a mix of this.localStream and the music
InjectHoldMusicIntoCall(st) ==
    LET cs == st.currentSession IN
    IF cs = NoSession \/ ~HasPeerConnection(st, cs) \/ ~st.holdMusicAudioContext THEN st
    ELSE IF st.localStream = NoSession THEN st
    ELSE ReplaceTrack(st, cs, "mix")

\* startHoldMusicOnly(musicId); created tells whether createHoldMusicStream()
\* succeeded.  Every error is caught and dropped.
StartHoldMusicOnly(st, created) ==
    IF st.currentSession = NoSession THEN st
    ELSE LET st1 == StopHoldMusic(st)
         IN  IF created
             THEN InjectHoldMusicStream([st1 EXCEPT !.holdMusicStream = TRUE,
                                                    !.holdMusicAudioContext = TRUE])
             ELSE st1

\* startHoldMusic(musicId); created tells whether createHoldMusicWithWebAudio()
\* succeeded
StartHoldMusic(st, created) ==
    IF st.currentSession = NoSession THEN st
    ELSE LET st1 == StopHoldMusic(st)
         IN  IF created
             THEN InjectHoldMusicIntoCall([st1 EXCEPT !.holdMusicAudioContext = TRUE])
             ELSE st1

\* ---- Error handling ----

\* the messages handleError tells apart, and one it does not know
CriticalErrors ==
    {"Not registered", "Invalid configuration", "WebRTC not supported",
     "Microphone access denied"}

RetryableErrors ==
    {"Network error", "Connection timeout", "ICE gathering failed",
     "Server unavailable"}

ErrorMessages == CriticalErrors \cup {"Network error", "Unknown error"}

IsCriticalError(error) == error \in CriticalErrors

IsRetryableError(error) == error \in RetryableErrors

\* cleanup()
Cleanup(st) ==
    [StopHoldMusic(StopAllTones(st)) EXCEPT !.callState = "idle",
                                            !.callStartTime = 0,
                                            !.retryCount = 0]

\* this.maxRetries
maxRetries == 3

\* scheduleRetry(context), this.retryDelay being 1000: the timer of the context
\* is set with the delay retryDelay * 2^(retryCount - 1)
ScheduleRetry(st, context) ==
    IF st.retryCount < maxRetries
    THEN LET st1 == [st EXCEPT !.retryCount = @ + 1,
                               !.scheduledDelay = 1000 * 2 ^ st.retryCount]
         IN  IF context = "registration"
             THEN [st1 EXCEPT !.registrationTimer = @ + 1]
             ELSE [st1 EXCEPT !.retryTimer = @ + 1]
    ELSE [st EXCEPT !.retryCount = 0]

\* handleError(error, context)
HandleError(st, error, context) ==
    LET st1 == IF IsCriticalError(error)
               THEN [Cleanup(UpdateCallState(st, "idle")) EXCEPT !.failures = 0]
               ELSE st
    IN  IF IsRetryableError(error)
        THEN ScheduleRetry([st1 EXCEPT !.failures = IF @ < maxRetries THEN @ + 1 ELSE 0],
                           context)
        ELSE st1

\* ---- The tasks ----

Within(st) ==
    /\ Cardinality(st.requests) <= MaxRequests
    /\ Len(st.uploads) <= MaxUploads
    /\ Len(st.creates) <= MaxRequests
    /\ st.retryTimer <= MaxCount
    /\ st.registrationTimer <= MaxCount
    /\ st.stopQueued <= MaxUploads
    /\ \A s \in Sessions : Len(st.transfer[s]) <= MaxTransfers

Do(st, ev) ==
    /\ Within(st)
    /\ Commit([st EXCEPT !.last = ev])

\* systray startRecording(): startRecording() of the engine is called without a
\* stream, so after the reset of the recording state stream.getTracks() throws
\* into the catch block of the engine
SystrayStartRecording(st) ==
    LET st1 == IF st.mediaRecorder = "recording"
               THEN st
               ELSE [st EXCEPT !.recordedChunks = 0,
                               !.uploads = [i \in DOMAIN @ |-> [@[i] EXCEPT !.stale = TRUE]],
                               !.recordingSaved = FALSE,
                               !.recordingSaving = FALSE]
    IN  Notification([st1 EXCEPT !.isRecording = TRUE], "info")

\* systray startHoldMusic(musicId): startHoldMusicOnly() never throws
SystrayStartHoldMusic(st, created) ==
    Notification([StartHoldMusicOnly(st, created) EXCEPT !.holdMusicPlaying = TRUE],
                 "success")

\* systray transferCall(user): the engine throws when the current session
\* cannot be transferred and returns once the REFER is on its way
SystrayTransferCall(st) ==
    IF CanTransfer(st)
    THEN LET st1 == TransferCall(st)
             cs == st1.currentSession
         IN  Notification([st1 EXCEPT !.announced =
                                  @ \cup {<<cs, Len(st1.transfer[cs])>>}],
                          "success")
    ELSE Notification(st, "danger")

\* systray transferCall(targetUser), from the transfer list: the extension of
\* the chosen user is handed on as it is
SystrayTransferCallTo(st, ext) ==
    IF st.currentSession = NoSession THEN st
    ELSE IF CanTransfer(st) /\ ext = "valid"
    THEN Notification([TransferCallTo(st, ext) EXCEPT !.inCall = FALSE], "success")
    ELSE Notification(TransferCallTo(st, ext), "danger")

UserTransferTo ==
    \E ext \in Extensions :
        /\ inCall
        /\ Do(SystrayTransferCallTo(Cur, ext),
              [Ev("transferTo", currentSession)
               EXCEPT !.pre = ext,
                      !.n = IF currentSession = NoSession THEN 0
                            ELSE Len(transfer[currentSession])])

\* handleError(error, 'call') is invoked
ErrorHandled ==
    \E error \in ErrorMessages :
        Do(HandleError(Cur, error, "call"),
           [Ev("handleError", currentSession) EXCEPT !.pre = error, !.n = retryTimer])

\* handleError(error, 'registration') is invoked
RegistrationErrorHandled ==
    \E error \in ErrorMessages :
        Do(HandleError(Cur, error, "registration"),
           [Ev("handleError", NoSession) EXCEPT !.pre = error, !.n = registrationTimer])

\* the timer of scheduleRetry('registration') fires: retry() awaits register(),
\* which resolves or throws into handleError
RegistrationRetryFire ==
    \E outcome \in {"ok"} \cup ErrorMessages :
        /\ registrationTimer > 0
        /\ LET st1 == [Cur EXCEPT !.registrationTimer = @ - 1]
           IN  Do(IF outcome = "ok"
                  THEN [st1 EXCEPT !.failures = 0]
                  ELSE HandleError(st1, outcome, "registration"),
                  [Ev("retry", NoSession) EXCEPT !.pre = outcome])

\* the timer of scheduleRetry fires: retry('call') does nothing
RetryFire ==
    /\ retryTimer > 0
    /\ Do([Cur EXCEPT !.retryTimer = @ - 1], Ev("retry", NoSession))

\* time passes
Tick ==
    /\ now < MaxTime
    /\ Do([Cur EXCEPT !.now = @ + 1], Ev("tick", NoSession))

\* the next session object to be created
Fresh(s) ==
    /\ state[s] = "None"
    /\ \A t \in Sessions : t < s => state[t] # "None"

HoldState(s) ==
    IF s # NoSession /\ isOnHold[s] = "true" /\ remoteHold[s] THEN "held" ELSE "notHeld"

\* systray makeCall() and makeCall(phoneNumber) up to "await inviter.invite()"
MakeCall ==
    \E s \in Sessions :
        /\ Fresh(s)
        /\ inviting = NoSession
        /\ Do([PlayTone(UpdateCallState(Cur, "ringing"), "ringback") EXCEPT
                          !.inCall = TRUE,
                          !.kind[s] = "Inviter",
                          !.state[s] = "Establishing",
                          !.listeners[s] = @ + 1,
                          !.inviting = s],
              Ev("makeCall", s))

\* makeCall(phoneNumber) after the INVITE was sent, and the create request the
\* systray sends when it has resolved
MakeCallSentBy(st) ==
    IssueCreate(MakeCallReturn([Send(st, st.inviting, "INVITE") EXCEPT
                                    !.currentSession = st.inviting,
                                    !.sipCallId = Provisional(st.inviting),
                                    !.listeners[st.inviting] = @ + 1,
                                    !.inviting = NoSession],
                               st.inviting),
                st.inviting, FALSE)

\* makeCall(phoneNumber) after the INVITE was sent; the create request returns
\* before anything else happens
MakeCallSent ==
    /\ inviting # NoSession
    /\ Do(CreateReturned(MakeCallSentBy(Cur), Len(creates) + 1, TRUE),
          Ev("makeCallSent", inviting))

\* userAgent delegate onInvite
IncomingCall ==
    \E s \in Sessions :
        /\ Fresh(s)
        /\ Do(CreateReturned(SystrayOnIncomingCall(HandleIncomingCall(Cur, s)),
                              Len(creates) + 1, TRUE),
              Ev("incoming", s))

UserAnswer ==
    /\ incomingCall
    /\ Do(SystrayAnswerCall(Cur), Ev("answer", currentSession))

\* systray declineCall(session)
UserDecline ==
    /\ incomingCall
    /\ Do([Reject(Cur) EXCEPT !.inCall = FALSE, !.incomingCall = FALSE,
                               !.odooCallId = 0],
          Ev("decline", currentSession))

\* systray hangup()
UserHangup ==
    /\ inCall \/ incomingCall
    /\ Do([Hangup(Cur) EXCEPT !.inCall = FALSE], Ev("hangup", currentSession))

\* the accepted Invitation has sent its 200 OK
InboundEstablished ==
    \E s \in Sessions :
        /\ kind[s] = "Invitation" /\ state[s] = "Establishing"
        /\ Do(StateTransition(Cur, s, "Established"), Ev("established", s))

\* 200 OK to the INVITE of an Inviter
OutboundAccepted ==
    \E s \in Sessions :
        /\ kind[s] = "Inviter" /\ state[s] = "Establishing" /\ "INVITE" \in sent[s]
        /\ LET st1 == StateTransition(Cur, s, "Established")
           IN  Do(IF consult[s] > 0 THEN ConsultDisposition(st1, consult[s], "accepted")
                  ELSE st1,
                  Ev("established", s))

\* final rejection of the INVITE of an Inviter (also the 487 after a CANCEL):
\* the library moves the session to Terminated, then calls the delegate
OutboundRejected ==
    \E s \in Sessions, statusCode \in Statuses :
        /\ kind[s] = "Inviter" /\ state[s] \in {"Establishing", "Terminating"}
        /\ "INVITE" \in sent[s]
        /\ LET st1 == StateTransition(Cur, s, "Terminated")
           IN  Do(IF consult[s] > 0 THEN ConsultDisposition(st1, consult[s], "rejected")
                  ELSE MakeCallOnReject(st1, s, statusCode),
                  [Ev("rejected", s) EXCEPT !.n = statusCode])

\* the remote party hangs up an established session
RemoteBye ==
    \E s \in Sessions :
        /\ state[s] = "Established"
        /\ LET st1 == StateTransition(Cur, s, "Terminated")
           IN  Do(IF consult[s] > 0 THEN ConsultDisposition(st1, consult[s], "bye")
                  ELSE st1,
                  Ev("remoteBye", s))

\* the caller gives up before the Invitation is answered
RemoteCancel ==
    \E s \in Sessions :
        /\ kind[s] = "Invitation" /\ state[s] = "Initial"
        /\ Do(StateTransition(Cur, s, "Terminated"), Ev("remoteCancel", s))

\* what a holdCall()/resumeCall() did: returned early, sent the re-INVITE, or threw
Outcome(st, noop) ==
    IF st.requests # requests THEN "Sent" ELSE IF noop THEN "Noop" ELSE "Threw"

\* systray holdCurrentCall()
UserHold ==
    /\ currentSession # NoSession
    /\ LET st1 == HoldCall(Cur)
       IN  Do(st1, [Ev("hold" \o Outcome(st1, isOnHold[currentSession] = "true"),
                       currentSession)
                    EXCEPT !.pre = isOnHold[currentSession]])

\* systray resumeCall()
UserResume ==
    /\ currentSession # NoSession
    /\ LET st1 == ResumeCall(Cur)
       IN  Do(st1, [Ev("resume" \o Outcome(st1, isOnHold[currentSession] = "false"),
                       currentSession)
                    EXCEPT !.pre = isOnHold[currentSession]])

\* 2xx to a re-INVITE: the library clears its pending flag and calls onAccept
ReinviteAccepted ==
    \E r \in requests :
        /\ r.op \in {"hold", "resume"}
        /\ Do(ReinviteOnAccept([Cur EXCEPT !.requests = @ \ {r},
                                           !.pendingReinvite[r.sess] = FALSE,
                                           !.remoteHold[r.sess] = (r.op = "hold")],
                               r.op = "hold"),
              [Ev(r.op \o "Accepted", r.sess)
               EXCEPT !.pre = IF remoteHold[r.sess] THEN "held" ELSE "notHeld"])

\* failure response to a re-INVITE: the library clears its pending flag and calls onReject
ReinviteRejected ==
    \E r \in requests :
        /\ r.op \in {"hold", "resume"}
        /\ Do(ReinviteOnReject([Cur EXCEPT !.requests = @ \ {r},
                                           !.pendingReinvite[r.sess] = FALSE],
                               r.op = "hold"),
              [Ev(r.op \o "Rejected", r.sess) EXCEPT !.pre = r.before])

\* systray transferCall(user)
UserTransfer ==
    /\ inCall \/ incomingCall
    /\ Do(SystrayTransferCall(Cur),
          [Ev("transferCall", currentSession)
           EXCEPT !.pre = HoldState(currentSession),
                  !.n = IF currentSession = NoSession THEN 0
                        ELSE Len(transfer[currentSession])])

\* attendedTransfer(extension)
UserAttendedTransfer ==
    \E n \in Sessions :
        /\ Fresh(n)
        /\ CanTransfer(Cur)
        /\ Do(AttendedTransfer(Cur, n),
              [Ev("attendedTransfer", currentSession)
               EXCEPT !.pre = HoldState(currentSession),
                      !.n = Len(transfer[currentSession])])

\* attendedTransfer(extension) on a session that is not Established
UserAttendedTransferRefused ==
    /\ currentSession # NoSession
    /\ ~CanTransfer(Cur)
    /\ Do(Cur, [Ev("attendedTransfer", currentSession)
                EXCEPT !.pre = HoldState(currentSession),
                       !.n = Len(transfer[currentSession])])

\* completeAttendedTransfer(newSession), newSession being a consultation Inviter
UserCompleteAttendedTransfer ==
    \E n \in Sessions :
        /\ consult[n] > 0
        /\ Do(CompleteAttendedTransfer(Cur, n),
              [Ev("completeAttendedTransfer", currentSession)
               EXCEPT !.target = n, !.pre = state[n]])

\* 2xx to a REFER
ReferAccepted ==
    \E r \in requests :
        /\ r.op \in {"refer", "complete"}
        /\ Do(ReferOnAccept([Cur EXCEPT !.requests = @ \ {r}], r.tid),
              [Ev(r.op \o "Accepted", r.sess)
               EXCEPT !.n = r.tid, !.target = r.target,
                      !.pre = IF r.target = NoSession THEN "None" ELSE state[r.target]])

\* failure response to a REFER
ReferRejected ==
    \E r \in requests :
        /\ r.op \in {"refer", "complete"}
        /\ Do(ReferOnReject([Cur EXCEPT !.requests = @ \ {r}], r.tid),
              [Ev(r.op \o "Rejected", r.sess) EXCEPT !.n = r.tid, !.target = r.target])

\* the 300 ms timer set by onCallEstablished
RecTimerFire ==
    \E s \in Sessions :
        /\ recTimer[s] > 0
        /\ LET st1 == [Cur EXCEPT !.recTimer[s] = @ - 1]
           IN  Do(IF currentSession = s THEN StartRecording(st1, s) ELSE st1,
                  Ev("recTimer", s))

\* mediaRecorder.ondataavailable with a non-empty chunk
DataAvailable ==
    /\ mediaRecorder = "recording"
    /\ recordedChunks < MaxChunks
    /\ Do(OnDataAvailable(Cur, 1), [Ev("dataavailable", recOwner) EXCEPT !.n = 1])

\* the task queued by MediaRecorder.stop(): the last dataavailable, then onstop
RecorderStopEvent ==
    \E add \in {0, 1} :
        /\ stopQueued > 0
        /\ recordedChunks + add <= MaxChunks
        /\ Do(RecorderOnstop([Cur EXCEPT !.stopQueued = @ - 1,
                                         !.recordedChunks = @ + add]),
              Ev("onstop", recOwner))

\* systray stopRecording(), from the in-call panel
UserStopRecording ==
    /\ inCall
    /\ Do([StopRecording(Cur) EXCEPT !.isRecording = FALSE],
          Ev("stopRecording", currentSession))

\* systray startRecording()
UserStartRecording ==
    /\ inCall
    /\ Do(SystrayStartRecording(Cur), Ev("startRecording", currentSession))

\* the 1 s timer set by onCallTerminated
TermTimerFire ==
    \E s \in Sessions :
        /\ termTimer[s] > 0
        /\ Do(MediaCleanup([Cur EXCEPT !.termTimer[s] = @ - 1]), Ev("termTimer", s))

\* systray startHoldMusic(), a music being selected
UserStartHoldMusic ==
    \E created \in BOOLEAN :
        /\ inCall
        /\ Do(SystrayStartHoldMusic(Cur, created),
              [Ev("startHoldMusicOnly", currentSession) EXCEPT !.flag = created])

\* systray stopHoldMusic()
UserStopHoldMusic ==
    /\ inCall
    /\ Do([StopHoldMusic(Cur) EXCEPT !.holdMusicPlaying = FALSE],
          Ev("stopHoldMusic", currentSession))

\* systray toggleHoldMusic(), a music being selected; the systray's own
\* currentSession is set by onIncomingCall only
UserToggleHoldMusic ==
    \E created \in BOOLEAN :
        /\ inCall
        /\ \E s \in Sessions : kind[s] = "Invitation"
        /\ IF holdMusicPlaying
           THEN /\ created
                /\ Do([StopHoldMusic(Cur) EXCEPT !.holdMusicPlaying = FALSE],
                      Ev("stopHoldMusic", currentSession))
           ELSE Do(Notification([StartHoldMusic(Cur, created)
                                     EXCEPT !.holdMusicPlaying = TRUE], "success"),
                   [Ev("startHoldMusic", currentSession) EXCEPT !.flag = created])

RemoveAt(seq, i) == SubSeq(seq, 1, i - 1) \o SubSeq(seq, i + 1, Len(seq))

\* a saveRecording() whose failure path empties the chunk buffer
SaveRecordingDoneDiscarding(st, i, ok) ==
    LET u == st.uploads[i]
        st1 == [st EXCEPT !.uploads = RemoveAt(@, i)]
        st2 == IF ok
               THEN [st1 EXCEPT !.recordingSaved = TRUE, !.okUploads[u.call] = Inc(@)]
               ELSE [st1 EXCEPT !.recordedChunks = 0]
        st3 == [st2 EXCEPT !.recordingSaving = FALSE]
    IN  IF u.onstop THEN CleanupRecordingStream(OnstopReset(st3)) ELSE st3

\* saveRecording() after the awaited fetch: response.ok, or a failure
SaveRecordingDone(st, i, ok) ==
    LET u == st.uploads[i]
        st1 == [st EXCEPT !.uploads = RemoveAt(@, i)]
        st2 == IF ok
               THEN [st1 EXCEPT !.recordingSaved = TRUE, !.okUploads[u.call] = Inc(@)]
               ELSE st1
        st3 == [st2 EXCEPT !.recordingSaving = FALSE]
    IN  IF u.onstop THEN CleanupRecordingStream(OnstopReset(st3)) ELSE st3

UploadDone ==
    \E i \in 1..Len(uploads), ok \in BOOLEAN :
        Do(SaveRecordingDone(Cur, i, ok),
           [Ev(IF ok THEN "uploadOk" ELSE "uploadFailed", uploads[i].call)
            EXCEPT !.n = uploads[i].chunks, !.flag = uploads[i].stale])

\* call setup and teardown
NextSetup ==
    \/ MakeCall
    \/ MakeCallSent
    \/ IncomingCall
    \/ UserAnswer
    \/ UserDecline
    \/ UserHangup
    \/ InboundEstablished
    \/ OutboundAccepted
    \/ OutboundRejected
    \/ RemoteBye
    \/ RemoteCancel

NextHold ==
    \/ UserHold
    \/ UserResume
    \/ ReinviteAccepted
    \/ ReinviteRejected

NextTransfer ==
    \/ UserTransfer
    \/ UserAttendedTransfer
    \/ UserAttendedTransferRefused
    \/ UserCompleteAttendedTransfer
    \/ ReferAccepted
    \/ ReferRejected

NextRecording ==
    \/ UserStartRecording
    \/ RecTimerFire
    \/ DataAvailable
    \/ RecorderStopEvent
    \/ UserStopRecording
    \/ UploadDone

NextMusic ==
    \/ UserStartHoldMusic
    \/ UserStopHoldMusic
    \/ UserToggleHoldMusic
    \/ TermTimerFire

Next == NextSetup \/ NextHold \/ NextTransfer \/ NextRecording \/ NextMusic

Spec == Init /\ [][Next]_vars

\* config.user.enable_recording is off
InitCall == Init /\ enable_recording = FALSE /\ liveAudio = "both" /\ ~confirmedDiffers

\* config.user.enable_recording is on; both parties' audio is live
InitRec == Init /\ enable_recording = TRUE /\ liveAudio = "both" /\ ~confirmedDiffers

\* config.user.enable_recording is on
InitRecAny == Init /\ enable_recording = TRUE /\ ~confirmedDiffers

\* calls only
SpecSetup == InitCall /\ [][NextSetup]_vars

\* calls with hold and resume
SpecHold == InitCall /\ [][NextSetup \/ NextHold]_vars

\* calls with hold and transfer
SpecTransfer ==
    InitCall /\ [][NextSetup \/ UserHold \/ ReinviteAccepted \/ NextTransfer]_vars

\* calls in time
SpecDuration == InitCall /\ [][NextSetup \/ Tick]_vars

\* calls with hold music
SpecMusic == InitCall /\ [][NextSetup \/ NextMusic]_vars

\* calls with recording
SpecRec == InitRec /\ [][NextSetup \/ NextRecording]_vars

\* outbound calls with recording
NextRecOut ==
    \/ MakeCall
    \/ MakeCallSent
    \/ OutboundAccepted
    \/ UserHangup
    \/ RemoteBye
    \/ NextRecording

SpecRecOut == InitRec /\ [][NextRecOut]_vars

\* makeCall on a client that has had no call yet
FirstCall ==
    /\ \A s \in Sessions : state[s] = "None"
    /\ MakeCall

\* the first outbound call, recorded from whichever audio is live
NextRecOne ==
    \/ FirstCall
    \/ MakeCallSent
    \/ OutboundAccepted
    \/ UserHangup
    \/ RemoteBye
    \/ NextRecording

SpecRecOne == InitRecAny /\ [][NextRecOne]_vars

\* one outbound call with the commands that notify the user
NextNotify ==
    \/ FirstCall
    \/ MakeCallSent
    \/ OutboundAccepted
    \/ UserHangup
    \/ RemoteBye
    \/ UserTransfer
    \/ ReferAccepted
    \/ ReferRejected
    \/ UserStartHoldMusic
    \/ UserStopHoldMusic
    \/ UserStartRecording

SpecNotify == InitCall /\ [][NextNotify]_vars

\* makeCall while the engine has no session
IdleCall ==
    /\ currentSession = NoSession
    /\ \A s \in Sessions : state[s] \in {"None", "Terminated"}
    /\ MakeCall

\* outbound calls, one after the other, answered or rejected, with the start
\* and the stop of the recorder
NextRecReject ==
    \/ IdleCall
    \/ MakeCallSent
    \/ OutboundAccepted
    \/ OutboundRejected
    \/ UserHangup
    \/ RemoteBye
    \/ RecTimerFire
    \/ RecorderStopEvent
    \/ UserStartRecording
    \/ UserStopRecording

SpecRecReject == InitRec /\ [][NextRecReject]_vars

\* one recorded outbound call with hold music, and errors handed to handleError
NextFatal ==
    \/ FirstCall
    \/ MakeCallSent
    \/ OutboundAccepted
    \/ OutboundRejected
    \/ UserHangup
    \/ RemoteBye
    \/ RecTimerFire
    \/ RecorderStopEvent
    \/ UserStartHoldMusic
    \/ ErrorHandled
    \/ RetryFire

SpecFatal == InitRec /\ [][NextFatal]_vars

\* calls with the start and the stop of the recorder
SpecRecSetup == InitRec /\ [][NextSetup \/ RecTimerFire \/ RecorderStopEvent]_vars

\* recorded outbound calls, one after the other
NextRecSeq ==
    \/ IdleCall
    \/ MakeCallSent
    \/ OutboundAccepted
    \/ UserHangup
    \/ RemoteBye
    \/ RecTimerFire
    \/ DataAvailable
    \/ RecorderStopEvent
    \/ UploadDone

SpecRecSeq == InitRec /\ [][NextRecSeq]_vars

\* systray toggleMute() with muteMicrophone() / unmuteMicrophone(): the audio
\* tracks of this.localStream, the tracks of a sender, are disabled or enabled
SystrayToggleMute(st) ==
    LET st1 == IF st.localStream = NoSession THEN st
               ELSE [st EXCEPT !.sendEnabled[st.localStream] = st.isMuted]
    IN  Notification([st1 EXCEPT !.isMuted = ~st.isMuted], "info")

UserToggleMute ==
    /\ inCall
    /\ Do(SystrayToggleMute(Cur), Ev("toggleMute", currentSession))

\* the first outbound call with hold, resume and mute
SpecMute ==
    InitCall /\ [][FirstCall \/ MakeCallSent \/ OutboundAccepted \/ UserHold
                      \/ UserResume \/ ReinviteAccepted \/ ReinviteRejected
                      \/ UserToggleMute \/ UserHangup \/ RemoteBye]_vars

\* mediaRecorder.ondataavailable with an empty chunk
EmptyDataAvailable ==
    /\ mediaRecorder = "recording"
    /\ Do(OnDataAvailable(Cur, 0), [Ev("dataavailable", recOwner) EXCEPT !.n = 0])

\* the first outbound call, recorded, with chunks of any size
SpecRecStart == InitRecAny /\ [][NextRecOne \/ EmptyDataAvailable]_vars

\* one outbound call, errors handed to handleError and the retries
SpecRetry ==
    InitCall /\ [][FirstCall \/ MakeCallSent \/ OutboundAccepted \/ UserHangup
                      \/ RemoteBye \/ RegistrationErrorHandled
                      \/ RegistrationRetryFire]_vars

\* onInvite; the create request of the systray is in flight
IncomingCallCreating ==
    \E s \in Sessions :
        /\ Fresh(s)
        /\ Do(SystrayOnIncomingCall(HandleIncomingCall(Cur, s)), Ev("incoming", s))

\* makeCall(phoneNumber) after the INVITE was sent; the create request of the
\* systray is in flight
MakeCallSentCreating ==
    /\ inviting # NoSession
    /\ Do(MakeCallSentBy(Cur), Ev("makeCallSent", inviting))

\* a create request returns
CreateDone ==
    \E i \in DOMAIN creates, ok \in BOOLEAN :
        Do(CreateReturned(Cur, i, ok),
           [Ev("createReturned", creates[i].sess) EXCEPT !.flag = ok])

\* calls and their call-log records
NextLog ==
    \/ MakeCall
    \/ MakeCallSentCreating
    \/ IncomingCallCreating
    \/ CreateDone
    \/ UserAnswer
    \/ UserDecline
    \/ UserHangup
    \/ InboundEstablished
    \/ OutboundAccepted
    \/ OutboundRejected
    \/ RemoteBye
    \/ RemoteCancel

\* the engine as constructed, recording by default off
InitLog == Init /\ enable_recording = FALSE /\ liveAudio = "both"

SpecLog == InitLog /\ [][NextLog]_vars

\* calls transferred to a user of the list
NextTarget ==
    \/ NextSetup
    \/ UserTransferTo
    \/ ReferAccepted
    \/ ReferRejected

SpecTarget == InitCall /\ [][NextTarget]_vars

\* one outbound call with hold, resume and blind transfer
NextOverlap ==
    \/ FirstCall
    \/ MakeCallSent
    \/ OutboundAccepted
    \/ UserHangup
    \/ RemoteBye
    \/ NextHold
    \/ UserTransfer
    \/ ReferAccepted
    \/ ReferRejected

SpecOverlap == InitCall /\ [][NextOverlap]_vars

\* ---- Properties of the design ----

\* C1: for every call at most one recording upload is answered OK, whatever
\* the interleaving of stopRecording() calls, recorder stop events and
\* saveRecording() completions.
C1_AtMostOneUploadSucceeds == \A s \in Sessions : okUploads[s] <= 1

\* C2: the termination processing of a session takes effect once: one call-log
\* hangup update, one stopRecording and one onCallTerminated hook per session.
C2_TerminatedOnce ==
    \A s \in Sessions : termHook[s] <= 1 /\ hangupReq[s] <= 1 /\ stopRecByTerm[s] <= 1

\* C3: an incoming call that arrives while a call is Established leaves that
\* call the session the engine controls, and the hold re-INVITE is sent on the
\* established session, not on the incoming one.
C3_ActiveCallUndisturbed ==
    (last.op = "incoming" /\ last.cs # NoSession /\ state[last.cs] = "Established")
        => /\ currentSession = last.cs
           /\ \A r \in requests : r.op = "hold" => r.sess # last.sess
           /\ isOnHold[last.sess] = Undefined

Held(v) == v = "true"

\* C4: a rejected or failed hold/resume re-negotiation leaves the held flag of
\* the session as it was before the attempt.
C4_RejectedReinviteKeepsFlag ==
    (last.op \in {"holdRejected", "resumeRejected", "holdThrew", "resumeThrew"})
        => Held(isOnHold[last.sess]) = Held(last.pre)

\* C5: hold accepted and then resume accepted on an Established session is a
\* round trip: isOnHold is false and the receiver and sender tracks are enabled.
C5_HoldResumeRoundTrip ==
    (last.op = "resumeAccepted" /\ last.pre = "held" /\ state[last.sess] = "Established")
        => /\ isOnHold[last.sess] = "false"
           /\ recvEnabled[last.sess]
           /\ sendEnabled[last.sess]

\* the primitive that matches the state and direction of a session
Matching(k, st) ==
    IF st = "Established" THEN "BYE"
    ELSE IF k = "Inviter" THEN "CANCEL" ELSE "REJECT"

\* C6: hangup() on a session in a non-terminal state sends cancel (outbound not
\* yet established), reject (inbound still ringing) or bye (established), and
\* the session is terminated.
C6_HangupSendsMatchingPrimitive ==
    (last.op = "hangup" /\ last.sess # NoSession
        /\ last.state \in {"Initial", "Establishing", "Established"})
        => /\ Matching(kind[last.sess], last.state) \in sent[last.sess]
           /\ state[last.sess] \in {"Terminating", "Terminated"}

\* C7: blind transfer outcome: an accepted REFER marks the record of the
\* attempt completed and a bye is sent on the original session; a rejected
\* REFER marks it not completed, no bye is sent and the session stays Established.
C7_BlindTransferOutcome ==
    /\ (last.op = "referAccepted" /\ last.state = "Established")
           => /\ transfer[last.sess][last.n].complete = "true"
              /\ "BYE" \in sent[last.sess]
              /\ state[last.sess] = "Terminated"
    /\ (last.op = "referRejected" /\ last.state = "Established")
           => /\ transfer[last.sess][last.n].complete = "false"
              /\ "BYE" \notin sent[last.sess]
              /\ state[last.sess] = "Established"

\* C8: on a Held session or a Ringing session transferCall and attendedTransfer
\* are refused: no TransferRecord is appended and nothing is sent.
C8_TransferOnlyWhenEstablishedNotHeld ==
    (last.op \in {"transferCall", "attendedTransfer"} /\ last.sess # NoSession
        /\ (last.pre = "held" \/ last.state \in {"Initial", "Establishing"}))
        => /\ Len(transfer[last.sess]) = last.n
           /\ \A r \in requests : ~(r.sess = last.sess /\ r.tid > last.n)

\* C9: when the REFER that completes an attended transfer is accepted, with
\* the consultation leg Established, a bye is sent on both legs and neither
\* remains Established.
C9_AttendedTransferTearsDownBothLegs ==
    (last.op = "completeAccepted" /\ last.state = "Established" /\ last.pre = "Established")
        => /\ "BYE" \in sent[last.sess] /\ state[last.sess] # "Established"
           /\ "BYE" \in sent[last.target] /\ state[last.target] # "Established"

CallbackOps ==
    {"holdAccepted", "holdRejected", "resumeAccepted", "resumeRejected",
     "referAccepted", "referRejected"}

SessionUntouched(s) ==
    /\ isOnHold'[s] = isOnHold[s]
    /\ hasData'[s] = hasData[s]
    /\ transfer'[s] = transfer[s]
    /\ state'[s] = state[s]
    /\ sent'[s] = sent[s]
    /\ recvEnabled'[s] = recvEnabled[s]
    /\ sendEnabled'[s] = sendEnabled[s]

\* C10: a response that arrives for a hold, resume or transfer request after
\* its session has terminated raises no exception and changes no other session.
C10_LateCallbackAbortsCleanly ==
    [][(last'.op \in CallbackOps /\ last'.state = "Terminated")
         => /\ errors' = {}
            /\ \A s \in Sessions : s # last'.sess => SessionUntouched(s)]_vars

C12_RecordingNeverStopsSourceTrack == stoppedByRec = {}

\* C13: hold music is a round trip on the audio sender: after a successful
\* startHoldMusic / startHoldMusicOnly on an Established call the sender carries
\* the music, and after stopHoldMusic the sender of every Established call
\* carries that call's own microphone track.
C13_HoldMusicRoundTrip ==
    /\ (last.op \in {"startHoldMusic", "startHoldMusicOnly"} /\ last.flag
            /\ last.sess # NoSession /\ last.state = "Established")
           => senderTrack[last.sess] \in {"music", "mix"}
    /\ (last.op = "stopHoldMusic")
           => \A s \in Sessions : state[s] = "Established" => senderTrack[s] = "own"

\* C14: the duration sent to the call log when a call terminates is the number
\* of whole seconds the call was Established for.
C14_ReportedDurationIsElapsedSeconds ==
    (reported.sess # NoSession /\ establishedAt[reported.sess] # 0)
        => reported.duration = reported.elapsed

\* C15: the UI never shows a call the engine has dropped: once a task has run
\* to its end, if the engine holds no current session and no makeCall is on
\* its way to set one, inCall and incomingCall are both false.
C15_UiShowsNoEndedCall ==
    (currentSession = NoSession /\ inviting = NoSession)
        => (~inCall /\ ~incomingCall)

\* C16: a user command that fails shows exactly one failure notification and no
\* success notification: a start of hold music after which the sender carries
\* no music, a blind transfer the remote side rejects, and a start of a
\* recording after which no recorder records.
C16_FailedCommandNotifiesOnce ==
    /\ (last.op = "startHoldMusicOnly"
            /\ (last.sess = NoSession \/ senderTrack[last.sess] # "music"))
           => (notified.danger = 1 /\ notified.success = 0)
    /\ (last.op = "referRejected")
           => (notified.danger = 1 /\ <<last.sess, last.n>> \notin announced)
    /\ (last.op = "startRecording" /\ mediaRecorder # "recording")
           => (notified.danger = 1 /\ notified.info = 0 /\ notified.success = 0)

\* C17: an outbound call can be cancelled at any moment before it is
\* Established, the wait for the INVITE to be sent included: a hangup sends
\* CANCEL on every outbound session that is being established and that session
\* leaves the Establishing state.
C17_HangupCancelsOutboundSetup ==
    [][(last'.op = "hangup")
         => \A s \in Sessions :
                (kind[s] = "Inviter" /\ state[s] = "Establishing")
                    => /\ "CANCEL" \in sent'[s]
                       /\ state'[s] \in {"Terminating", "Terminated"}]_vars

\* C18: makeCall is valid only when the engine has no session: when the current
\* session is ringing, establishing, established or held, makeCall creates no
\* session, sends nothing and leaves the current session in place.
C18_MakeCallOnlyFromIdle ==
    [][(/\ last'.op \in {"makeCall", "makeCallSent"}
        /\ currentSession # NoSession
        /\ state[currentSession] \in {"Initial", "Establishing", "Established"})
         => /\ kind' = kind
            /\ sent' = sent
            /\ currentSession' = currentSession]_vars

\* C19: holdCall and resumeCall act only on an Established or Held session: on
\* a session that is ringing or being established they send no re-INVITE and
\* the session is on hold afterwards exactly if it was before.
C19_HoldResumeOnlyWhenEstablished ==
    (/\ last.op \in {"holdSent", "holdNoop", "holdThrew",
                     "resumeSent", "resumeNoop", "resumeThrew"}
     /\ last.state \in {"Initial", "Establishing"})
        => /\ "REINVITE" \notin sent[last.sess]
           /\ Held(isOnHold[last.sess]) = Held(last.pre)

\* the current session has a request of one of these kinds awaiting its response
Awaiting(ops) ==
    /\ currentSession # NoSession
    /\ \E r \in requests : r.sess = currentSession /\ r.op \in ops

\* C20: overlapping requests of one kind are refused: a holdCall or resumeCall
\* while a hold/resume re-INVITE of the session awaits its response, and a
\* transferCall while a REFER of the session awaits its response, fails with an
\* error and sends no further request.
C20_OverlappingRequestsRejected ==
    [][/\ (/\ last'.op \in {"holdSent", "holdNoop", "holdThrew",
                             "resumeSent", "resumeNoop", "resumeThrew"}
            /\ Awaiting({"hold", "resume"}))
             => (last'.op \in {"holdThrew", "resumeThrew"} /\ requests' = requests)
       /\ (last'.op = "transferCall" /\ Awaiting({"refer"}))
             => (notified'.danger = 1 /\ requests' = requests)]_vars

Classified(statusCode) ==
    IF statusCode = 486 THEN "busy"
    ELSE IF statusCode \in {480, 503} THEN "unavailable"
    ELSE IF statusCode = 404 THEN "notFound"
    ELSE IF statusCode = 408 THEN "timeout"
    ELSE "serverError"

\* C22: a final rejection of an outbound setup ends the session Terminated with
\* the reason classified from the status of the response; that reason is what
\* the caller of makeCall gets and what is reported as termination reason.
C22_RejectionReasonSurfaced ==
    (last.op = "rejected" /\ consult[last.sess] = 0 /\ last.state = "Establishing")
        => /\ state[last.sess] = "Terminated"
           /\ rejectionError[last.sess] = Classified(last.n)
           /\ returned[last.sess] = Classified(last.n)
           /\ hangupReason = Classified(last.n)

\* C23: when an outbound call is rejected before it is established, the
\* ringback tone does not play once the rejection is processed, and no recorder
\* is ever created for that call: a recorder is started only for a session
\* that reached Established and is the current session when the delayed start
\* fires.
C23_RejectedCallStopsRingbackNoRecorder ==
    [][/\ (last'.op = "rejected" /\ consult[last'.sess] = 0)
             => tone' # "ringback"
       /\ (mediaRecorder # "recording" /\ mediaRecorder' = "recording")
             => (recOwner' = currentSession /\ establishedAt[recOwner'] # 0)
       /\ \A s \in Sessions : establishedAt'[s] = 0 => recOwner' # s]_vars

\* a call was rejected before it was established and the recorder of a later
\* call has just been started
C23_Witness ==
    /\ last.op = "recTimer" /\ mediaRecorder = "recording"
    /\ recOwner = last.sess /\ tone # "ringback"
    /\ \E s \in Sessions :
          /\ kind[s] = "Inviter" /\ state[s] = "Terminated"
          /\ rejectionError[s] # Null /\ establishedAt[s] = 0
          /\ recOwner # s

\* C24: a fatal error forces the engine to idle with its resources cleared:
\* after handleError with a fatal error callState is idle, there is no current
\* session and no active recorder, no tone and no hold music plays, and no
\* retry has been scheduled.
C24_FatalErrorClearsEngine ==
    (last.op = "handleError" /\ last.pre \in CriticalErrors)
        => /\ callState = "idle"
           /\ currentSession = NoSession
           /\ mediaRecorder # "recording"
           /\ tone = "none"
           /\ ~holdMusicStream
           /\ retryTimer = last.n

\* C25: the termination of a session that is not the current session leaves
\* the current session alone: it stays the current session, its recorder
\* keeps running and the UI still shows the call.
C25_OtherTerminationLeavesCurrent ==
    [][\A s \in Sessions :
          (/\ state[s] # "Terminated" /\ state'[s] = "Terminated"
           /\ currentSession \notin {NoSession, s}
           /\ state[currentSession] = "Established"
           /\ state'[currentSession] = "Established")
            => /\ currentSession' = currentSession
               /\ mediaRecorder = "recording" => mediaRecorder' = "recording"
               /\ inCall' = inCall]_vars

\* C26: the saving flag excludes concurrent uploads: at any time at most one
\* upload request is in flight.
C26_OneUploadInFlight == Len(uploads) <= 1

\* C27: the end of the recording of an earlier call does not touch a later
\* call: when an upload of call A completes while call B is being recorded,
\* callStartTime, recordingSaved, recordingSaving and the recording stream of
\* B are left as they are.
C27_OldUploadLeavesNewCall ==
    [][(/\ last'.op \in {"uploadOk", "uploadFailed"}
        /\ mediaRecorder = "recording"
        /\ recOwner # last'.sess)
         => /\ callStartTime' = callStartTime
            /\ recordingSaved' = recordingSaved
            /\ recordingSaving' = recordingSaving
            /\ recordingStream' = recordingStream]_vars

\* C28: an upload holds all chunks of the call, the one delivered when the
\* recorder stops included: no upload is started while a recorder has been
\* stopped and its last data has not been delivered yet.
C28_NoUploadBeforeLastData ==
    [][stopQueued' > 0 => Len(uploads') <= Len(uploads)]_vars

\* a music track on a sender is live: the source it comes from has not been stopped
SenderTrackLive(s) ==
    /\ senderTrack[s] = "music" => holdMusicStream
    /\ senderTrack[s] = "mix" => holdMusicAudioContext

\* the calls named a precede every call named b in the running task
Precedes(a, b) ==
    \A i \in DOMAIN steps :
        steps[i] = b => \E j \in 1..(i - 1) : steps[j] = a

\* C29: stopping hold music is sequenced: the music source (oscillators, stream
\* tracks, audio context) is stopped only after the sender's track has been
\* replaced by the microphone track, so that once stopHoldMusic has run no
\* sender of an Established call carries a stopped track.
C29_MusicStoppedAfterTrackRestored ==
    [][(/\ last'.op = "stopHoldMusic"
        /\ \E s \in Sessions :
               state[s] = "Established" /\ senderTrack[s] \in {"music", "mix"})
           => /\ Precedes("replaceTrack", "stopHoldMusicSource")'
              /\ \A s \in Sessions :
                     state'[s] = "Established" => SenderTrackLive(s)']_vars

\* the calls by which a termination is told to the call log and to the service
CollaboratorCalls == {"updateCallDuration", "hangupCall", "onCallTerminated"}

\* C30: a termination first stops the tones, then stops the recording, and only
\* then tells its collaborators (the call log gets duration and reason, the
\* service's onCallTerminated hook runs): no collaborator is told before the
\* tones and the recorder have been stopped.
C30_CollaboratorsToldAfterStops ==
    \A c \in CollaboratorCalls :
        /\ Precedes("stopAllTones", c)
        /\ Precedes("stopRecording", c)

\* C31: the identifiers of a call do not leak into the next one: a call is
\* answered and its duration is reported under its own call id, and once every
\* call has terminated with no request, recorder or upload left, odooCallId and
\* sipCallId hold no call's value.
C31_CallIdsDoNotLeak ==
    /\ answeredAs # 0 => answeredAs = CallId(currentSession)
    /\ reported.sess # NoSession => reported.call_id = CallId(reported.sess)
    /\ (/\ \A s \in Sessions : state[s] \in {"None", "Terminated"}
        /\ inviting = NoSession /\ creates = <<>> /\ uploads = <<>>
        /\ stopQueued = 0 /\ mediaRecorder # "recording")
           => (odooCallId = 0 /\ sipCallId = 0)

\* C32: for an inbound call at most one call-log create request is issued,
\* whenever the user answers relative to the return of the request issued when
\* the call arrived.
C32_OneCreatePerInboundCall ==
    \A s \in Sessions : kind[s] = "Invitation" => createCount[s] <= 1

\* C35: when a call is Established its correlation id is reconfirmed: if the id
\* of the dialog differs from the provisional one, this.sipCallId becomes the
\* confirmed id and the call-log record of the call ends up carrying it,
\* whether the create request returned before or after the call was established.
C35_ConfirmedIdReachesCallLog ==
    \A s \in Sessions :
        (/\ confirmedDiffers
         /\ state[s] = "Established" /\ currentSession = s
         /\ logged[s] # 0
         /\ \A i \in DOMAIN creates : creates[i].sess # s)
            => (sipCallId = Confirmed(s) /\ logged[s] = Confirmed(s))

\* C33: hold-music resources do not outlive the call: when no call is left
\* (every session object is Terminated or was never created), no hold-music
\* stream and no hold-music audio context is active.
C33_HoldMusicEndsWithCall ==
    (\A s \in Sessions : state[s] \in {"None", "Terminated"})
        => (~holdMusicStream /\ ~holdMusicAudioContext)

\* C34: mute survives hold and resume: when a resume is accepted while the UI
\* shows the microphone muted, the outbound microphone track of the call is
\* still disabled.
C34_MuteSurvivesHoldResume ==
    (/\ last.op = "resumeAccepted" /\ last.pre = "held" /\ isMuted
     /\ state[last.sess] = "Established" /\ localStream = last.sess)
        => ~sendEnabled[last.sess]

\* C36: at most one recorder is active: a startRecording while a recorder is
\* active (the delayed start of onCallEstablished or the command of the
\* systray) leaves the recorder, the chunk buffer and the saved / saving flags
\* as they are, and a dataavailable event appends its chunk only if the chunk
\* is not empty.
C36_ActiveRecorderRefusesStart ==
    [][/\ (last'.op \in {"recTimer", "startRecording"} /\ mediaRecorder = "recording")
           => UNCHANGED <<mediaRecorder, recordedChunks, recordingSaved,
                          recordingSaving, recOwner, recordingStream, uploads>>
       /\ (last'.op = "dataavailable")
           => recordedChunks' = recordedChunks + last'.n]_vars

\* a delayed start was refused: the chunks recorded so far are still there
C36_Witness ==
    /\ last.op = "recTimer" /\ last.cs = last.sess
    /\ mediaRecorder = "recording" /\ recordedChunks > 0

\* C37: retries are bounded with exponential backoff: the k-th transient
\* failure in a row schedules a retry after 1000 * 2^(k-1) ms for k up to
\* maxRetries, and the failure after those schedules none.
C37_BoundedExponentialBackoff ==
    [][(last'.op \in {"handleError", "retry"} /\ last'.pre \in RetryableErrors)
           => scheduledDelay' = IF failures < maxRetries
                                THEN 1000 * 2 ^ failures
                                ELSE 0]_vars

\* C40: a retry that succeeds restores the retry budget: after it retryCount
\* is 0.
C40_SuccessfulRetryRestoresBudget ==
    (last.op = "retry" /\ last.pre = "ok") => retryCount = 0

\* C38: completeAttendedTransfer records its outcome on the transfer record that
\* the attendedTransfer of its consultation call appended, whatever was
\* appended to the transfer log in between.
C38_CompletionWritesAttendedRecord ==
    (last.op \in {"completeAccepted", "completeRejected"} /\ last.target # NoSession)
        => last.n = consult[last.target]

\* C39: the recording indicator follows the recorder: a start-recording
\* command of the systray on an Established call without an active recorder
\* leaves a recorder recording, and isRecording becomes true only when a
\* recorder records.
C39_IndicatorFollowsRecorder ==
    [][/\ (/\ last'.op = "startRecording"
           /\ currentSession # NoSession
           /\ state[currentSession] = "Established"
           /\ mediaRecorder # "recording")
              => mediaRecorder' = "recording"
       /\ (isRecording' /\ ~isRecording) => mediaRecorder' = "recording"]_vars

====
